---- MODULE Spec2Model ----
(***************************************************************************)
(* Prospector: the game engine (src/game.py), the player record            *)
(* (src/player.py) and the session registry with its two monitors          *)
(* (src/server.py), for one game identifier.                                *)
(*                                                                         *)
(* Time.  The code reads time.time() and compares differences with two     *)
(* thresholds.  The model keeps the differences themselves, in seconds:    *)
(* turn_elapsed is time.time() - turn_start_time and last_active is        *)
(* time.time() - player.last_active, both saturated one second above their *)
(* threshold (every larger value compares the same).  Tick(d) lets d       *)
(* seconds pass.                                                           *)
(*                                                                         *)
(* History.  game_history is an append-only list; the model keeps its      *)
(* length, its last entry and the number of player_left and game_over      *)
(* entries it holds, which is enough to observe every append.              *)
(***************************************************************************)
EXTENDS Integers, Sequences, FiniteSets, TLC

\* ------------------------------------------------------------------ bounds
MaxPlayerObjects == 4   \* Player objects there are
LifePlayers == 3        \* Player objects a run of EngineSpec or Spec constructs
MaxConns == 2           \* client connections (one handler thread each)
MAX_PLAYERS == 3        \* prospector.common.constants.MAX_PLAYERS
LongTick == 61          \* seconds that pass in one long step of the clock
ShortTick == 60         \* seconds that pass in one short step of the clock

\* --------------------------------------------------------------- constants
DEFAULT_PLAYERS == 2
DEFAULT_TURN_TIMEOUT == 60
INACTIVITY_TIMEOUT == 60
WARNING_WINDOW == 10
POLL_INTERVAL == 1
LAND_VALUE_REGULAR == 1
LAND_VALUE_GOLD == 5
NoPlayer == 0           \* None where a Player is expected
NoOwner == -1           \* LandCell.owner = None
NoTime == -1            \* turn_start_time = None
GameId == 1             \* the game identifier the model follows
UnknownGameId == 2      \* an identifier that is in no games table

PlayerIds == 1..MaxPlayerObjects
Conns == 1..MaxConns
ORIENTATION_HORIZONTAL == "horizontal"
ORIENTATION_VERTICAL == "vertical"
Orientations == {ORIENTATION_HORIZONTAL, ORIENTATION_VERTICAL, "diagonal"}
GAME_STATE_WAITING == "waiting"
GAME_STATE_PLAYING == "playing"
GAME_STATE_FINISHED == "finished"

Min(a, b) == IF a < b THEN a ELSE b
Max(a, b) == IF a > b THEN a ELSE b

Cells(n) == (0..(n - 1)) \X (0..(n - 1))

VARIABLES
  game,         \* the ProspectorGame object
  rec,          \* the Player objects, by id
  next_id,      \* the next Player object to be constructed
  games,        \* ProspectorServer.games: the identifiers in the table
  clients,      \* ProspectorServer.clients: connection -> (player_id, game_id)
  srv_players,  \* ProspectorServer.players: the identifiers in the table
  created,      \* whether the game identifier has been handed out
  sent,         \* what the server has written to the client sockets
  lock,         \* ProspectorServer.lock: the thread that holds it, or Free
  pc            \* where each thread is: "idle", "locked" or "done"

engineVars == <<game, rec, next_id>>
serverVars == <<games, clients, srv_players, created, sent>>
lockVars == <<lock, pc>>
vars == <<game, rec, next_id, games, clients, srv_players, created, sent, lock, pc>>

\* ------------------------------------------------------------ player.py
NewPlayer == [score |-> 0, wins |-> 0, losses |-> 0, draws |-> 0,
              games_played |-> 0, last_active |-> 0]

update_activity(p) == [p EXCEPT !.last_active = 0]

win_game(p) == [p EXCEPT !.wins = @ + 1, !.games_played = @ + 1]

lose_game(p) == [p EXCEPT !.losses = @ + 1, !.games_played = @ + 1]

\* A variant of draw_game that counts a shared first place as a win.
draw_game_as_win(p) == [p EXCEPT !.wins = @ + 1, !.games_played = @ + 1]

draw_game(p) == [p EXCEPT !.draws = @ + 1, !.games_played = @ + 1]

\* A variant of add_score that counts one point for every claim.
add_score_one(p, points) == [p EXCEPT !.score = @ + 1]

add_score(p, points) == [p EXCEPT !.score = @ + points]

\* -------------------------------------------------------------- game.py
get_value_for_type(land_type) ==
  CASE land_type = "regular" -> LAND_VALUE_REGULAR
    [] land_type = "gold" -> LAND_VALUE_GOLD
    [] OTHER -> LAND_VALUE_REGULAR

CellValue(g, cell) == get_value_for_type(g.land_type[cell])

RECURSIVE SumValues(_, _)
SumValues(g, S) ==
  IF S = {} THEN 0
  ELSE LET c == CHOOSE x \in S : TRUE
       IN CellValue(g, c) + SumValues(g, S \ {c})

EmptyHistory == [len |-> 0, last |-> "none", by |-> NoPlayer,
                 left |-> 0, over |-> 0]

HistoryAppend(h, type, player_id) ==
  [len |-> h.len + 1, last |-> type, by |-> player_id,
   left |-> h.left + (IF type = "player_left" THEN 1 ELSE 0),
   over |-> h.over + (IF type = "game_over" THEN 1 ELSE 0)]

\* _distribute_land_types: per type int(N*N*percentage) cells, the rest
\* regular, shuffled.  land_config gives the gold percentage (the rest of the
\* configuration is regular land).
\* random.shuffle may leave the gold cells anywhere; the rules are symmetric
\* under the reflections and rotations of the board, and the model takes the
\* layout that puts them first in row-major order.
LandLayouts(n, gold_pct) ==
  LET gold == (n * n * gold_pct) \div 100
  IN {[c \in Cells(n) |-> IF c[1] * n + c[2] < gold THEN "gold" ELSE "regular"]}

NewGame(n, max_players, land_type) ==
  [grid_size |-> n,
   max_players |-> Min(max_players, MAX_PLAYERS),
   players |-> <<>>,
   current_player_idx |-> 0,
   state |-> GAME_STATE_WAITING,
   turn_timeout |-> DEFAULT_TURN_TIMEOUT,
   turn_elapsed |-> NoTime,
   game_history |-> EmptyHistory,
   horizontal_fences |-> [r \in 0..n |-> [c \in 0..(n - 1) |-> FALSE]],
   vertical_fences |-> [r \in 0..(n - 1) |-> [c \in 0..n |-> FALSE]],
   land_type |-> land_type,
   owner |-> [c \in Cells(n) |-> NoOwner],
   unclaimed_lands |-> n * n]

get_current_player(g) ==
  IF Len(g.players) = 0 \/ g.current_player_idx >= Len(g.players)
  THEN NoPlayer
  ELSE g.players[g.current_player_idx + 1]

\* A variant of next_turn that passes over one player.
next_turn_skipping(g) ==
  IF Len(g.players) > 0
  THEN [g EXCEPT !.current_player_idx = (g.current_player_idx + 2) % Len(g.players),
                 !.turn_elapsed = 0]
  ELSE g

\* A variant of next_turn that leaves the turn clock running.
next_turn_same_clock(g) ==
  IF Len(g.players) > 0
  THEN [g EXCEPT !.current_player_idx = (g.current_player_idx + 1) % Len(g.players)]
  ELSE g

next_turn(g) ==
  IF Len(g.players) > 0
  THEN [g EXCEPT !.current_player_idx = (g.current_player_idx + 1) % Len(g.players),
                 !.turn_elapsed = 0]
  ELSE g

\* A variant of add_player that starts the game with its first player.
add_player_eager(w, p) ==
  IF Len(w.game.players) < w.game.max_players
  THEN [game |-> [w.game EXCEPT !.players = Append(@, p),
                                !.state = GAME_STATE_PLAYING,
                                !.turn_elapsed = 0],
        rec |-> w.rec, ret |-> TRUE]
  ELSE [game |-> w.game, rec |-> w.rec, ret |-> FALSE]

\* A variant of add_player without the test of the roster's size.
add_player_unbounded(w, p) ==
  LET g1 == [w.game EXCEPT !.players = Append(@, p)]
      g2 == IF Len(g1.players) >= 2
            THEN [g1 EXCEPT !.state = GAME_STATE_PLAYING, !.turn_elapsed = 0]
            ELSE g1
  IN [game |-> g2, rec |-> w.rec, ret |-> TRUE]

add_player(w, p) ==
  IF Len(w.game.players) < w.game.max_players
  THEN LET g1 == [w.game EXCEPT !.players = Append(@, p)]
           g2 == IF Len(g1.players) >= 2
                 THEN [g1 EXCEPT !.state = GAME_STATE_PLAYING, !.turn_elapsed = 0]
                 ELSE g1
       IN [game |-> g2, rec |-> w.rec, ret |-> TRUE]
  ELSE [game |-> w.game, rec |-> w.rec, ret |-> FALSE]

\* A variant of RemoveAt for a pop() without the index.
RemoveLast(s, i) == [k \in 1..(Len(s) - 1) |-> s[k]]

RemoveAt(s, i) == [k \in 1..(Len(s) - 1) |-> IF k < i THEN s[k] ELSE s[k + 1]]

\* A variant of remove_player that leaves the lifecycle state as it is.
remove_player_still_playing(w, player_id) ==
  LET g == w.game
      found == {i \in 1..Len(g.players) : g.players[i] = player_id}
  IN IF found = {}
     THEN [game |-> g, rec |-> w.rec, ret |-> FALSE]
     ELSE LET i == CHOOSE k \in found : \A m \in found : k <= m
          IN [game |-> [g EXCEPT !.players = RemoveAt(@, i)],
              rec |-> w.rec, ret |-> TRUE]

remove_player(w, player_id) ==
  LET g == w.game
      found == {i \in 1..Len(g.players) : g.players[i] = player_id}
  IN IF found = {}
     THEN [game |-> g, rec |-> w.rec, ret |-> FALSE]
     ELSE
       LET i == CHOOSE k \in found : \A m \in found : k <= m
           playing == g.state = GAME_STATE_PLAYING
           rec1 == IF playing
                   THEN [q \in DOMAIN w.rec |->
                           IF \E j \in 1..Len(g.players) : j # i /\ g.players[j] = q
                           THEN win_game(w.rec[q])
                           ELSE IF q = player_id THEN lose_game(w.rec[q])
                           ELSE w.rec[q]]
                   ELSE w.rec
           g1 == IF playing
                 THEN [g EXCEPT !.state = GAME_STATE_FINISHED,
                                !.game_history = HistoryAppend(@, "player_left", player_id)]
                 ELSE g
           g2 == [g1 EXCEPT !.players = RemoveAt(@, i)]
           g3 == IF Len(g2.players) < 2 /\ g2.state = GAME_STATE_PLAYING
                 THEN [g2 EXCEPT !.state = GAME_STATE_FINISHED]
                 ELSE g2
       IN [game |-> g3, rec |-> rec1, ret |-> TRUE]

\* A variant of check_claimed_land that does not look at the owner.
check_claimed_land_any_owner(g) ==
  {cell \in Cells(g.grid_size) :
     /\ g.horizontal_fences[cell[1]][cell[2]]
     /\ g.horizontal_fences[cell[1] + 1][cell[2]]
     /\ g.vertical_fences[cell[1]][cell[2]]
     /\ g.vertical_fences[cell[1]][cell[2] + 1]}

\* A variant of check_claimed_land that does not look at the right fence.
check_claimed_land_no_right(g) ==
  {cell \in Cells(g.grid_size) :
     /\ g.owner[cell] = NoOwner
     /\ g.horizontal_fences[cell[1]][cell[2]]
     /\ g.horizontal_fences[cell[1] + 1][cell[2]]
     /\ g.vertical_fences[cell[1]][cell[2]]}

\* A variant of check_claimed_land that stops at the first cell it finds.
check_claimed_land_first_only(g) ==
  LET all == {cell \in Cells(g.grid_size) :
                /\ g.owner[cell] = NoOwner
                /\ g.horizontal_fences[cell[1]][cell[2]]
                /\ g.horizontal_fences[cell[1] + 1][cell[2]]
                /\ g.vertical_fences[cell[1]][cell[2]]
                /\ g.vertical_fences[cell[1]][cell[2] + 1]}
  IN {cell \in all :
        \A d \in all : cell[1] < d[1] \/ (cell[1] = d[1] /\ cell[2] <= d[2])}

check_claimed_land(g) ==
  {cell \in Cells(g.grid_size) :
     /\ g.owner[cell] = NoOwner
     /\ g.horizontal_fences[cell[1]][cell[2]]
     /\ g.horizontal_fences[cell[1] + 1][cell[2]]
     /\ g.vertical_fences[cell[1]][cell[2]]
     /\ g.vertical_fences[cell[1]][cell[2] + 1]}

\* The scan of end_game for the highest score: st = <<max_score, winners>>.
RECURSIVE ScanWinners(_, _, _, _)
ScanWinners(g, r, i, st) ==
  IF i > Len(g.players) THEN st[2]
  ELSE LET s == r[g.players[i]].score
       IN IF s > st[1] THEN ScanWinners(g, r, i + 1, <<s, {i}>>)
          ELSE IF s = st[1] THEN ScanWinners(g, r, i + 1, <<st[1], st[2] \cup {i}>>)
          ELSE ScanWinners(g, r, i + 1, st)

\* A variant of end_game without the test for a finished game: it appends
\* game_over whatever the state.
end_game_again(w) ==
  [game |-> [w.game EXCEPT !.state = GAME_STATE_FINISHED,
                           !.game_history = HistoryAppend(@, "game_over", NoPlayer)],
   rec |-> w.rec]

end_game(w) ==
  LET g == w.game IN
  IF g.state = GAME_STATE_FINISHED
  THEN [game |-> g, rec |-> w.rec]
  ELSE
    LET g1 == [g EXCEPT !.state = GAME_STATE_FINISHED,
                        !.game_history = HistoryAppend(@, "game_over", NoPlayer)]
        winners == ScanWinners(g, w.rec, 1, <<-1, {}>>)
        Idx(q) == {i \in 1..Len(g.players) : g.players[i] = q}
        rec1 ==
          IF Len(g.players) < 2
          THEN [q \in DOMAIN w.rec |->
                  IF Len(g.players) > 0 /\ q = g.players[1]
                  THEN win_game(w.rec[q]) ELSE w.rec[q]]
          ELSE IF Cardinality(winners) = 1
          THEN [q \in DOMAIN w.rec |->
                  IF Idx(q) = {} THEN w.rec[q]
                  ELSE IF Idx(q) \subseteq winners THEN win_game(w.rec[q])
                  ELSE lose_game(w.rec[q])]
          ELSE [q \in DOMAIN w.rec |->
                  IF Idx(q) = {} THEN w.rec[q]
                  ELSE IF Idx(q) \subseteq winners THEN draw_game(w.rec[q])
                  ELSE lose_game(w.rec[q])]
    IN [game |-> g1, rec |-> rec1]

\* A variant of PlaceFail that records the rejected call in the history.
PlaceFailLogged(w) ==
  [game |-> [w.game EXCEPT !.game_history = HistoryAppend(@, "fence_placed", NoPlayer)],
   rec |-> w.rec,
   ret |-> [ok |-> FALSE, claimed |-> {}]]

\* "return False, []"
PlaceFail(w) == [game |-> w.game, rec |-> w.rec,
                 ret |-> [ok |-> FALSE, claimed |-> {}]]

\* A variant of TurnExpired for a clock that is never looked at.
NeverExpired(g) == FALSE

\* "Check if turn time has expired"
TurnExpired(g) ==
  g.turn_timeout > 0 /\ g.turn_elapsed # NoTime /\ g.turn_elapsed > g.turn_timeout

\* The part of place_fence after the fence bit is set (g already holds it).
\* A variant of AfterFence that counts one cell per claim.
AfterFence_counting_one(w, g, player_id) ==
  LET cur == get_current_player(w.game)
      rec1 == [w.rec EXCEPT ![cur] = update_activity(@)]
      g1 == [g EXCEPT !.game_history = HistoryAppend(@, "fence_placed", player_id)]
      claimed_land == check_claimed_land(g1)
  IN IF claimed_land = {}
     THEN [game |-> [next_turn(g1) EXCEPT !.turn_elapsed = 0],
           rec |-> rec1,
           ret |-> [ok |-> TRUE, claimed |-> claimed_land]]
     ELSE
       LET score_gained == SumValues(g1, claimed_land)
           g2 == [g1 EXCEPT
                    !.owner = [c \in DOMAIN @ |->
                                 IF c \in claimed_land THEN g1.current_player_idx ELSE @[c]],
                    !.unclaimed_lands = @ - 1,
                    !.game_history = HistoryAppend(@, "land_claimed", player_id)]
           rec2 == [rec1 EXCEPT ![cur] = add_score(@, score_gained)]
           e == IF g2.unclaimed_lands = 0
                THEN end_game([game |-> g2, rec |-> rec2])
                ELSE [game |-> g2, rec |-> rec2]
       IN [game |-> [e.game EXCEPT !.turn_elapsed = 0],
           rec |-> e.rec,
           ret |-> [ok |-> TRUE, claimed |-> claimed_land]]

AfterFence(w, g, player_id) ==
  LET cur == get_current_player(w.game)
      rec1 == [w.rec EXCEPT ![cur] = update_activity(@)]
      g1 == [g EXCEPT !.game_history = HistoryAppend(@, "fence_placed", player_id)]
      claimed_land == check_claimed_land(g1)
  IN IF claimed_land = {}
     THEN [game |-> [next_turn(g1) EXCEPT !.turn_elapsed = 0],
           rec |-> rec1,
           ret |-> [ok |-> TRUE, claimed |-> claimed_land]]
     ELSE
       LET score_gained == SumValues(g1, claimed_land)
           g2 == [g1 EXCEPT
                    !.owner = [c \in DOMAIN @ |->
                                 IF c \in claimed_land THEN g1.current_player_idx ELSE @[c]],
                    !.unclaimed_lands = @ - Cardinality(claimed_land),
                    !.game_history = HistoryAppend(@, "land_claimed", player_id)]
           rec2 == [rec1 EXCEPT ![cur] = add_score(@, score_gained)]
           e == IF g2.unclaimed_lands = 0
                THEN end_game([game |-> g2, rec |-> rec2])
                ELSE [game |-> g2, rec |-> rec2]
       IN [game |-> [e.game EXCEPT !.turn_elapsed = 0],
           rec |-> e.rec,
           ret |-> [ok |-> TRUE, claimed |-> claimed_land]]

\* A variant of place_fence without the "fence already exists" checks.
place_fence_unchecked(w, player_id, row, col, orientation) ==
  LET g == w.game
      n == g.grid_size
      cur == get_current_player(g)
  IN IF g.state # GAME_STATE_PLAYING THEN PlaceFail(w)
     ELSE IF cur = NoPlayer \/ cur # player_id THEN PlaceFail(w)
     ELSE IF TurnExpired(g)
     THEN PlaceFail([w EXCEPT !.game = next_turn(g)])
     ELSE IF orientation = ORIENTATION_HORIZONTAL
     THEN IF ~(0 <= row /\ row <= n /\ 0 <= col /\ col < n) THEN PlaceFail(w)
          ELSE AfterFence(w, [g EXCEPT !.horizontal_fences[row][col] = TRUE], player_id)
     ELSE IF orientation = ORIENTATION_VERTICAL
     THEN IF ~(0 <= row /\ row < n /\ 0 <= col /\ col <= n) THEN PlaceFail(w)
          ELSE AfterFence(w, [g EXCEPT !.vertical_fences[row][col] = TRUE], player_id)
     ELSE PlaceFail(w)

place_fence(w, player_id, row, col, orientation) ==
  LET g == w.game
      n == g.grid_size
      cur == get_current_player(g)
  IN IF g.state # GAME_STATE_PLAYING THEN PlaceFail(w)
     ELSE IF cur = NoPlayer \/ cur # player_id THEN PlaceFail(w)
     ELSE IF TurnExpired(g)
     THEN PlaceFail([w EXCEPT !.game = next_turn(g)])
     ELSE IF orientation = ORIENTATION_HORIZONTAL
     THEN IF ~(0 <= row /\ row <= n /\ 0 <= col /\ col < n) THEN PlaceFail(w)
          ELSE IF g.horizontal_fences[row][col] THEN PlaceFail(w)
          ELSE AfterFence(w, [g EXCEPT !.horizontal_fences[row][col] = TRUE], player_id)
     ELSE IF orientation = ORIENTATION_VERTICAL
     THEN IF ~(0 <= row /\ row < n /\ 0 <= col /\ col <= n) THEN PlaceFail(w)
          ELSE IF g.vertical_fences[row][col] THEN PlaceFail(w)
          ELSE AfterFence(w, [g EXCEPT !.vertical_fences[row][col] = TRUE], player_id)
     ELSE PlaceFail(w)

\* A variant of check_inactivity that clears the board of the game it ends.
check_inactivity_clearing(w, elapsed) ==
  LET g == w.game
      cur == get_current_player(g)
  IN IF g.state # GAME_STATE_PLAYING \/ g.turn_elapsed = NoTime \/ cur = NoPlayer
        \/ elapsed <= g.turn_timeout
     THEN [game |-> g, rec |-> w.rec, ret |-> FALSE]
     ELSE LET r == remove_player(w, cur)
          IN [game |-> [r.game EXCEPT
                          !.horizontal_fences =
                             [i \in DOMAIN @ |-> [j \in DOMAIN @[i] |-> FALSE]],
                          !.vertical_fences =
                             [i \in DOMAIN @ |-> [j \in DOMAIN @[i] |-> FALSE]]],
              rec |-> r.rec,
              ret |-> TRUE]

\* elapsed is time.time() - turn_start_time as check_inactivity reads it.
check_inactivity(w, elapsed) ==
  LET g == w.game
      cur == get_current_player(g)
  IN IF g.state # GAME_STATE_PLAYING \/ g.turn_elapsed = NoTime
     THEN [game |-> g, rec |-> w.rec, ret |-> FALSE]
     ELSE IF cur = NoPlayer THEN [game |-> g, rec |-> w.rec, ret |-> FALSE]
     ELSE IF elapsed > g.turn_timeout
     THEN [remove_player(w, cur) EXCEPT !.ret = TRUE]
     ELSE [game |-> g, rec |-> w.rec, ret |-> FALSE]

\* ---------------------------------------------------------- serialization
\* Player.to_dict: the identifier goes with the counters.
player_to_dict(w, q) ==
  [id |-> q, score |-> w.rec[q].score,
   stats |-> [wins |-> w.rec[q].wins, losses |-> w.rec[q].losses,
              draws |-> w.rec[q].draws, games_played |-> w.rec[q].games_played],
   last_active |-> w.rec[q].last_active]

player_from_dict(d) ==
  [score |-> d.score, wins |-> d.stats.wins, losses |-> d.stats.losses,
   draws |-> d.stats.draws, games_played |-> d.stats.games_played,
   last_active |-> d.last_active]

\* ProspectorGame.to_dict: the dictionary holds the identifier of the
\* current player (None when get_current_player() is None), not the index.
to_dict(w) ==
  LET g == w.game IN
  [grid_size |-> g.grid_size,
   max_players |-> g.max_players,
   state |-> g.state,
   current_player_id |-> get_current_player(g),
   players |-> [i \in 1..Len(g.players) |-> player_to_dict(w, g.players[i])],
   horizontal_fences |-> g.horizontal_fences,
   vertical_fences |-> g.vertical_fences,
   land_cells |-> [c \in Cells(g.grid_size) |->
                    [type |-> g.land_type[c], value |-> CellValue(g, c),
                     owner |-> g.owner[c]]],
   unclaimed_lands |-> g.unclaimed_lands,
   turn_timeout |-> g.turn_timeout,
   turn_start_time |-> g.turn_elapsed]

\* ProspectorGame.from_dict: a new game, then the fields of the dictionary;
\* the index is that of the first player with the current player's
\* identifier, and stays 0 when the dictionary names none.  The Player
\* objects are those of the roster.
from_dict(d) ==
  LET g0 == NewGame(d.grid_size, d.max_players,
                    CHOOSE l \in LandLayouts(d.grid_size, 0) : TRUE)
      hits == {i \in 1..Len(d.players) : d.players[i].id = d.current_player_id}
      idx == IF d.current_player_id # NoPlayer /\ hits # {}
             THEN (CHOOSE i \in hits : \A k \in hits : i <= k) - 1
             ELSE g0.current_player_idx
  IN [game |-> [g0 EXCEPT
                  !.turn_timeout = d.turn_timeout,
                  !.state = d.state,
                  !.unclaimed_lands = d.unclaimed_lands,
                  !.turn_elapsed = d.turn_start_time,
                  !.players = [i \in 1..Len(d.players) |-> d.players[i].id],
                  !.current_player_idx = idx,
                  !.horizontal_fences = d.horizontal_fences,
                  !.vertical_fences = d.vertical_fences,
                  !.land_type = [c \in Cells(d.grid_size) |-> d.land_cells[c].type],
                  !.owner = [c \in Cells(d.grid_size) |-> d.land_cells[c].owner]],
      rec |-> [q \in PlayerIds |->
                 IF \E i \in 1..Len(d.players) : d.players[i].id = q
                 THEN player_from_dict(
                        d.players[CHOOSE i \in 1..Len(d.players) : d.players[i].id = q])
                 ELSE NewPlayer]]

\* ------------------------------------------------------- the engine alone
World == [game |-> game, rec |-> rec]

OnRoster(g, q) == \E i \in 1..Len(g.players) : g.players[i] = q

\* The age of a Player object that no roster holds is read by no code path;
\* the model stops counting it.
Tracked(g, r) ==
  [q \in DOMAIN r |-> IF OnRoster(g, q) THEN r[q] ELSE [r[q] EXCEPT !.last_active = 0]]

\* game.add_player(Player(name)).  A Player object the engine turns away is
\* referenced by nothing, and its identifier stands for the next one.
AddPlayer(budget) ==
  /\ next_id <= budget
  /\ LET r == add_player(World, next_id)
     IN /\ game' = r.game
        /\ rec' = Tracked(r.game, r.rec)
        /\ next_id' = IF r.ret THEN next_id + 1 ELSE next_id

RemovePlayer(player_id) ==
  LET r == remove_player(World, player_id)
  IN /\ game' = r.game
     /\ rec' = Tracked(r.game, r.rec)
     /\ UNCHANGED next_id

PlaceFence(player_id, row, col, orientation) ==
  LET r == place_fence(World, player_id, row, col, orientation)
  IN /\ game' = r.game
     /\ rec' = r.rec
     /\ UNCHANGED next_id

CheckInactivity ==
  LET r == check_inactivity(World, game.turn_elapsed)
  IN /\ game' = r.game
     /\ rec' = Tracked(r.game, r.rec)
     /\ UNCHANGED next_id

EndGame ==
  LET r == end_game(World)
  IN /\ game' = r.game
     /\ rec' = r.rec
     /\ UNCHANGED next_id

\* d seconds pass.
Aged(g, r, d) ==
  [q \in DOMAIN r |->
     IF OnRoster(g, q)
     THEN [r[q] EXCEPT !.last_active = Min(@ + d, INACTIVITY_TIMEOUT + 1)]
     ELSE r[q]]

\* d seconds pass on the turn clock.  The engine compares the time with
\* turn_start_time alone; last_active is read by the server's inactivity
\* monitor only, and the specifications of the engine do not age it.
TurnTick(d) ==
  /\ game' = [game EXCEPT !.turn_elapsed =
                IF @ = NoTime THEN @ ELSE Min(@ + d, game.turn_timeout + 1)]
  /\ game' # game
  /\ UNCHANGED <<rec, next_id>>

\* d seconds pass on the turn clock and on every rostered player's age.
Tick(d) ==
  /\ game' = [game EXCEPT !.turn_elapsed =
                IF @ = NoTime THEN @ ELSE Min(@ + d, game.turn_timeout + 1)]
  /\ rec' = Aged(game, rec, d)
  /\ <<game', rec'>> # <<game, rec>>
  /\ UNCHANGED next_id

\* The arguments the model draws for a call: the identifiers of the Player
\* objects constructed so far and one identifier no roster holds;
\* coordinates from one below to one above the lattice.  A caller whose turn
\* it is tries every slot in both orientations and one slot in an
\* orientation that does not exist; every other caller tries one slot.
Callers == 1..Min(next_id, MaxPlayerObjects)
Coords(g) == (-1)..(g.grid_size + 1)
FenceCalls(g, callers) ==
  (({get_current_player(g)} \cap callers) \X Coords(g) \X Coords(g)
      \X {ORIENTATION_HORIZONTAL, ORIENTATION_VERTICAL})
  \cup (callers \X {0} \X {0} \X {ORIENTATION_HORIZONTAL, "diagonal"})

NoAssoc == [player |-> NoPlayer, game |-> 0]
Free == 0

\* What a game_state message shows of a game: the roster, the current
\* player, and the grid, which the length of the history stands for (every
\* change of the grid appends to it).
NoSnapshot == [players |-> <<>>, current_player |-> NoPlayer, moves |-> -1]

Snapshot(g) ==
  [players |-> g.players,
   current_player |-> get_current_player(g),
   moves |-> g.game_history.len]

\* Nothing written yet: snapshot and to are the last game_state message and
\* the connections it went to; warned are the connections an
\* inactive_warning went to since the turn clock last started.
NothingSent == [snapshot |-> NoSnapshot, to |-> {}, warned |-> {}]

NoServer ==
  /\ games = {}
  /\ clients = [c \in Conns |-> NoAssoc]
  /\ srv_players = {}
  /\ created = FALSE
  /\ sent = NothingSent

NoThreads ==
  /\ lock = Free
  /\ pc = [t \in 1..(MaxConns + 2) |-> "idle"]

\* The constructor arguments the model draws: grid_size, max_players and the
\* gold percentage of land_config.
MaxPlayersArgs == 2..(MAX_PLAYERS + 1)

\* The engine through its whole life cycle, on the smallest grid.
EngineInit ==
  /\ \E m \in MaxPlayersArgs :
       \E layout \in LandLayouts(1, 0) : game = NewGame(1, m, layout)
  /\ rec = [q \in PlayerIds |-> NewPlayer]
  /\ next_id = 1
  /\ NoServer
  /\ NoThreads

EngineNext ==
  \/ AddPlayer(LifePlayers)
     /\ UNCHANGED <<serverVars, lockVars>>
  \/ \E p \in Callers : RemovePlayer(p)
     /\ UNCHANGED <<serverVars, lockVars>>
  \/ \E a \in FenceCalls(game, Callers) : PlaceFence(a[1], a[2], a[3], a[4])
     /\ UNCHANGED <<serverVars, lockVars>>
  \/ CheckInactivity
     /\ UNCHANGED <<serverVars, lockVars>>
  \/ EndGame
     /\ UNCHANGED <<serverVars, lockVars>>
  \/ TurnTick(LongTick)
     /\ UNCHANGED <<serverVars, lockVars>>

EngineSpec == EngineInit /\ [][EngineNext]_vars

\* Two players on a 2 x 2 grid with the default land configuration (no cell
\* of a grid this small gets a special type), playing against the clock.
PlayInit ==
  /\ \E layout \in LandLayouts(2, 0) : game = NewGame(2, DEFAULT_PLAYERS, layout)
  /\ rec = [q \in PlayerIds |-> NewPlayer]
  /\ next_id = 1
  /\ NoServer
  /\ NoThreads

PlayNext ==
  \/ AddPlayer(game.max_players)
     /\ UNCHANGED <<serverVars, lockVars>>
  \/ \E a \in FenceCalls(game, Callers) : PlaceFence(a[1], a[2], a[3], a[4])
     /\ UNCHANGED <<serverVars, lockVars>>
  \/ CheckInactivity
     /\ UNCHANGED <<serverVars, lockVars>>
  \/ TurnTick(LongTick)
     /\ UNCHANGED <<serverVars, lockVars>>
  \/ TurnTick(ShortTick)
     /\ UNCHANGED <<serverVars, lockVars>>

PlaySpec == PlayInit /\ [][PlayNext]_vars

\* The same play on a grid configured with a quarter of gold land: one gold
\* cell and three regular ones.
GoldInit ==
  /\ \E layout \in LandLayouts(2, 25) : game = NewGame(2, DEFAULT_PLAYERS, layout)
  /\ rec = [q \in PlayerIds |-> NewPlayer]
  /\ next_id = 1
  /\ NoServer
  /\ NoThreads

GoldSpec == GoldInit /\ [][PlayNext]_vars

\* A game for MAX_PLAYERS players on a 2 x 2 grid, after its first k
\* admissions and before any move; from there the players place fences, and
\* end_game may be called at any point.
RECURSIVE Admitted(_, _)
Admitted(w, k) ==
  IF k = 0 THEN w
  ELSE LET r == add_player(Admitted(w, k - 1), k)
       IN [game |-> r.game, rec |-> r.rec]

RosterInit ==
  /\ \E k \in 1..MAX_PLAYERS :
       \E layout \in LandLayouts(2, 0) :
         LET w == Admitted([game |-> NewGame(2, MAX_PLAYERS, layout),
                            rec |-> [q \in PlayerIds |-> NewPlayer]], k)
         IN game = w.game /\ rec = w.rec /\ next_id = k + 1
  /\ NoServer
  /\ NoThreads

RosterNext ==
  \/ \E a \in FenceCalls(game, Callers) : PlaceFence(a[1], a[2], a[3], a[4])
     /\ UNCHANGED <<serverVars, lockVars>>
  \/ EndGame
     /\ UNCHANGED <<serverVars, lockVars>>

RosterSpec == RosterInit /\ [][RosterNext]_vars

\* The same on a 1 x 1 grid, with players leaving at any point.
LeaveInit ==
  /\ \E k \in 1..MAX_PLAYERS :
       \E layout \in LandLayouts(1, 0) :
         LET w == Admitted([game |-> NewGame(1, MAX_PLAYERS, layout),
                            rec |-> [q \in PlayerIds |-> NewPlayer]], k)
         IN game = w.game /\ rec = w.rec /\ next_id = k + 1
  /\ NoServer
  /\ NoThreads

LeaveNext ==
  \/ \E a \in FenceCalls(game, Callers) : PlaceFence(a[1], a[2], a[3], a[4])
     /\ UNCHANGED <<serverVars, lockVars>>
  \/ \E p \in Callers : RemovePlayer(p)
     /\ UNCHANGED <<serverVars, lockVars>>
  \/ EndGame
     /\ UNCHANGED <<serverVars, lockVars>>

LeaveSpec == LeaveInit /\ [][LeaveNext]_vars

\* The same engine with one more Player object, enough for a roster of
\* MAX_PLAYERS to lose two players and admit a new one.
ChurnNext ==
  \/ AddPlayer(MaxPlayerObjects)
     /\ UNCHANGED <<serverVars, lockVars>>
  \/ \E p \in Callers : RemovePlayer(p)
     /\ UNCHANGED <<serverVars, lockVars>>
  \/ \E a \in FenceCalls(game, Callers) : PlaceFence(a[1], a[2], a[3], a[4])
     /\ UNCHANGED <<serverVars, lockVars>>
  \/ CheckInactivity
     /\ UNCHANGED <<serverVars, lockVars>>
  \/ EndGame
     /\ UNCHANGED <<serverVars, lockVars>>
  \/ TurnTick(LongTick)
     /\ UNCHANGED <<serverVars, lockVars>>

ChurnSpec == EngineInit /\ [][ChurnNext]_vars

\* ------------------------------------------------------------- server.py
\* The registry as one value; resp is the response the handler returns.
Srv == [game |-> game, rec |-> rec, next_id |-> next_id, games |-> games,
        clients |-> clients, players |-> srv_players, created |-> created,
        sent |-> sent]

\* The connections the table associates with the game.
ClientsOf(S, game_id) == {c \in DOMAIN S.clients : S.clients[c].game = game_id}

broadcast_game_state(S, game_id) ==
  [S EXCEPT !.sent.snapshot = Snapshot(S.game),
            !.sent.to = ClientsOf(S, game_id)]

Reply(S, resp) == [srv |-> S, resp |-> resp]

\* handle_create_game, for the one identifier the model follows.  The game
\* is ProspectorGame(grid_size=grid_size): default max_players, default
\* land_config (no gold on a grid this small).
handle_create_game(S, conn, grid_size) ==
  LET pid == S.next_id
      g0 == NewGame(grid_size, DEFAULT_PLAYERS,
                    CHOOSE l \in LandLayouts(grid_size, 0) : TRUE)
      r == add_player([game |-> g0, rec |-> S.rec], pid)
  IN Reply([S EXCEPT !.players = @ \cup {pid},
                     !.next_id = @ + 1,
                     !.game = r.game,
                     !.rec = r.rec,
                     !.games = @ \cup {GameId},
                     !.created = TRUE,
                     !.clients[conn] = [player |-> pid, game |-> GameId]],
           "game_created")

handle_join_game(S, conn, game_id) ==
  IF game_id \notin S.games THEN Reply(S, "Game not found")
  ELSE
    LET pid == S.next_id
        S1 == [S EXCEPT !.players = @ \cup {pid}, !.next_id = @ + 1]
        r == add_player([game |-> S.game, rec |-> S.rec], pid)
    IN IF ~r.ret THEN Reply(S1, "Game is full")
       ELSE Reply(broadcast_game_state(
                    [S1 EXCEPT !.game = r.game,
                               !.rec = r.rec,
                               !.clients[conn] = [player |-> pid, game |-> game_id]],
                    game_id),
                  "game_joined")

handle_place_fence(S, conn, game_id, player_id, row, col, orientation) ==
  IF game_id \notin S.games THEN Reply(S, "Game not found")
  \* game.get_current_player().id on None raises; process_message answers
  ELSE IF get_current_player(S.game) = NoPlayer THEN Reply(S, "Server error")
  ELSE IF get_current_player(S.game) # player_id THEN Reply(S, "Not your turn")
  ELSE
    LET r == place_fence([game |-> S.game, rec |-> S.rec],
                         player_id, row, col, orientation)
        S1 == [S EXCEPT !.game = r.game, !.rec = r.rec]
    IN IF ~r.ret.ok THEN Reply(S1, "Invalid move")
       ELSE Reply(broadcast_game_state(S1, game_id), "fence_placed")

\* A variant of CollectGame that keeps every game in the table.
KeepGame(S, game_id) == S

\* "Remove game if empty"
CollectGame(S, game_id) ==
  IF Len(S.game.players) = 0 THEN [S EXCEPT !.games = @ \ {game_id}] ELSE S

handle_leave_game(S, conn, game_id, player_id) ==
  IF game_id \notin S.games THEN Reply(S, "Game not found")
  ELSE
    LET r == remove_player([game |-> S.game, rec |-> S.rec], player_id)
    IN IF ~r.ret THEN Reply(S, "Player not in game")
       ELSE Reply(CollectGame(
                    broadcast_game_state([S EXCEPT !.game = r.game,
                                                   !.rec = r.rec,
                                                   !.clients[conn] = NoAssoc],
                                         game_id),
                    game_id),
                  "left")

\* A variant of handle_client_disconnect that keeps the connection's entry
\* and takes the game's current player off the roster.
handle_client_disconnect_by_turn(S, conn) ==
  IF S.clients[conn] = NoAssoc THEN S
  ELSE
    LET game_id == S.clients[conn].game
    IN IF game_id \in S.games
       THEN LET r == remove_player([game |-> S.game, rec |-> S.rec],
                                   get_current_player(S.game))
            IN CollectGame(
                 broadcast_game_state([S EXCEPT !.game = r.game, !.rec = r.rec],
                                      game_id),
                 game_id)
       ELSE S

handle_client_disconnect(S, conn) ==
  IF S.clients[conn] = NoAssoc THEN S
  ELSE
    LET player_id == S.clients[conn].player
        game_id == S.clients[conn].game
        S1 == IF game_id \in S.games
              THEN LET r == remove_player([game |-> S.game, rec |-> S.rec], player_id)
                   IN CollectGame(
                        broadcast_game_state([S EXCEPT !.game = r.game, !.rec = r.rec],
                                             game_id),
                        game_id)
              ELSE S
    IN [S1 EXCEPT !.clients[conn] = NoAssoc]

\* One pass of check_turn_timers over the game.  later is the time that
\* passes between its reading of the clock and check_inactivity's.
check_turn_timers(S, later) ==
  LET g == S.game IN
  IF GameId \notin S.games THEN S
  ELSE IF g.state # GAME_STATE_PLAYING \/ g.turn_elapsed = NoTime THEN S
  ELSE IF get_current_player(g) = NoPlayer THEN S
  ELSE
    LET time_left == Max(0, g.turn_timeout - g.turn_elapsed)
        current_player == get_current_player(g)
        \* the inactive_warning goes to the connections registered for the
        \* current player
        S1 == IF 0 < time_left /\ time_left < WARNING_WINDOW
              THEN [S EXCEPT !.sent.warned =
                      @ \cup {c \in ClientsOf(S, GameId) :
                                 S.clients[c].player = current_player}]
              ELSE S
    IN IF time_left <= 0
       THEN LET r == check_inactivity([game |-> g, rec |-> S.rec],
                                      Min(g.turn_elapsed + later, g.turn_timeout + 1))
            IN [S1 EXCEPT !.game = r.game, !.rec = r.rec]
       ELSE S1

\* One pass of check_inactive_players over the game.
check_inactive_players(S) ==
  LET g == S.game
      current_player == get_current_player(g)
  IN
  IF GameId \notin S.games THEN S
  ELSE IF g.state # GAME_STATE_PLAYING THEN S
  ELSE IF current_player = NoPlayer THEN S
  ELSE
    LET ci == check_inactivity([game |-> g, rec |-> S.rec], g.turn_elapsed)
    IN IF ci.ret THEN [S EXCEPT !.game = ci.game, !.rec = ci.rec]
       ELSE IF S.rec[current_player].last_active > INACTIVITY_TIMEOUT
       THEN
         LET opponent_idx == 1 - g.current_player_idx
             rec1 == IF opponent_idx < Len(g.players)
                     \* a negative index counts from the end of the list
                     THEN LET opp == IF opponent_idx >= 0
                                     THEN g.players[opponent_idx + 1]
                                     ELSE g.players[Len(g.players) + opponent_idx + 1]
                              r1 == [S.rec EXCEPT ![opp].wins = @ + 1]
                          IN [r1 EXCEPT ![current_player].losses = @ + 1]
                     ELSE S.rec
             r == remove_player([game |-> g, rec |-> rec1], current_player)
             g1 == [r.game EXCEPT !.state = GAME_STATE_FINISHED]
         IN CollectGame(
              broadcast_game_state([S EXCEPT !.game = g1, !.rec = r.rec], GameId),
              GameId)
       ELSE S

\* ------------------------------------------------ the handlers as steps
SetSrv(S) ==
  /\ game' = S.game
  /\ rec' = Tracked(S.game, S.rec)
  /\ next_id' = S.next_id
  /\ games' = S.games
  /\ clients' = S.clients
  /\ srv_players' = S.players
  /\ created' = S.created
  \* a turn clock that has just started has seen no warning
  /\ sent' = IF S.game.turn_elapsed = 0
             THEN [S.sent EXCEPT !.warned = {}]
             ELSE S.sent

GameIds == {GameId, UnknownGameId}
ServerGridSizes == {1}

HandleCreateGame(conn, budget) ==
  /\ ~created
  /\ next_id <= budget
  /\ \E n \in ServerGridSizes : SetSrv(handle_create_game(Srv, conn, n).srv)

HandleJoinGame(conn, budget) ==
  /\ next_id <= budget
  /\ \E gid \in GameIds : SetSrv(handle_join_game(Srv, conn, gid).srv)

HandlePlaceFence(conn) ==
  \E gid \in GameIds, a \in FenceCalls(game, Callers) :
    SetSrv(handle_place_fence(Srv, conn, gid, a[1], a[2], a[3], a[4]).srv)

HandleLeaveGame(conn) ==
  \E gid \in GameIds, p \in Callers :
    SetSrv(handle_leave_game(Srv, conn, gid, p).srv)

HandleClientDisconnect(conn) ==
  SetSrv(handle_client_disconnect(Srv, conn))

CheckTurnTimers ==
  \E later \in {0, 1} : SetSrv(check_turn_timers(Srv, later))

CheckInactivePlayers ==
  SetSrv(check_inactive_players(Srv))

TimerThread == MaxConns + 1
InactivityThread == MaxConns + 2
Threads == 1..(MaxConns + 2)

\* What thread t does while it holds the lock.  The clients of LockSpec
\* construct as many Player objects as the game has places.
Locked(t) ==
  IF t = TimerThread THEN CheckTurnTimers
  ELSE IF t = InactivityThread THEN CheckInactivePlayers
  ELSE \/ HandleCreateGame(t, DEFAULT_PLAYERS)
       \/ HandleJoinGame(t, DEFAULT_PLAYERS)
       \/ HandlePlaceFence(t)
       \/ HandleLeaveGame(t)
       \/ HandleClientDisconnect(t)

ServerInit ==
  /\ game = NewGame(1, DEFAULT_PLAYERS, CHOOSE l \in LandLayouts(1, 0) : TRUE)
  /\ rec = [q \in PlayerIds |-> NewPlayer]
  /\ next_id = 1
  /\ NoServer
  /\ NoThreads

\* Every handler runs from "with self.lock:" to the end of the block: one step.
Next ==
  \/ \E conn \in Conns : HandleCreateGame(conn, LifePlayers)
     /\ UNCHANGED lockVars
  \/ \E conn \in Conns : HandleJoinGame(conn, LifePlayers)
     /\ UNCHANGED lockVars
  \/ \E conn \in Conns : HandlePlaceFence(conn)
     /\ UNCHANGED lockVars
  \/ \E conn \in Conns : HandleLeaveGame(conn)
     /\ UNCHANGED lockVars
  \/ \E conn \in Conns : HandleClientDisconnect(conn)
     /\ UNCHANGED lockVars
  \/ CheckTurnTimers
     /\ UNCHANGED lockVars
  \/ CheckInactivePlayers
     /\ UNCHANGED lockVars
  \/ Tick(LongTick)
     /\ UNCHANGED <<serverVars, lockVars>>

Spec == ServerInit /\ [][Next]_vars

\* ------------------------------------------------- the threads and the lock
\* A variant of Acquire for a block that does not wait for the lock.
AcquireUnguarded(t) ==
  /\ pc[t] = "idle"
  /\ lock' = t
  /\ pc' = [pc EXCEPT ![t] = "locked"]
  /\ UNCHANGED <<engineVars, serverVars>>

\* "with self.lock:" entered
Acquire(t) ==
  /\ pc[t] = "idle"
  /\ lock = Free
  /\ lock' = t
  /\ pc' = [pc EXCEPT ![t] = "locked"]
  /\ UNCHANGED <<engineVars, serverVars>>

\* the body of the block
Run(t) ==
  /\ pc[t] = "locked"
  /\ Locked(t)
  /\ pc' = [pc EXCEPT ![t] = "done"]
  /\ UNCHANGED lock

\* A variant of Release for a block left without releasing the lock.
LeaveHolding(t) ==
  /\ pc[t] = "done"
  /\ pc' = [pc EXCEPT ![t] = "idle"]
  /\ UNCHANGED <<engineVars, serverVars, lock>>

\* "with self.lock:" left, by return or by exception
Release(t) ==
  /\ pc[t] = "done"
  /\ lock' = Free
  /\ pc' = [pc EXCEPT ![t] = "idle"]
  /\ UNCHANGED <<engineVars, serverVars>>

LockNext ==
  \/ \E t \in Threads : Acquire(t)
  \/ \E t \in Threads : Run(t)
  \/ \E t \in Threads : Release(t)
  \/ Tick(LongTick) /\ UNCHANGED <<serverVars, lockVars>>

LockSpec == ServerInit /\ [][LockNext]_vars

\* The threads and the lock while the clock stands still: what a block
\* does with the time does not change how the block is left.
FairLockNext ==
  \/ \E t \in Threads : Acquire(t)
  \/ \E t \in Threads : Run(t)
  \/ \E t \in Threads : Release(t)

\* A thread inside a "with self.lock:" block keeps running: the body makes
\* no blocking call on the lock, and the with statement releases on return
\* and on exception.
FairLockSpec ==
  /\ ServerInit
  /\ [][FairLockNext]_vars
  /\ WF_vars(\E t \in Threads : Run(t))
  /\ WF_vars(\E t \in Threads : Release(t))

\* --------------------------------------------------- admissions to a game
\* A game with one cell, made for two players or more: players are admitted
\* and removed, fences placed, and the turn clock runs.
JoinNext ==
  \/ AddPlayer(LifePlayers)
     /\ UNCHANGED <<serverVars, lockVars>>
  \/ \E p \in Callers : RemovePlayer(p)
     /\ UNCHANGED <<serverVars, lockVars>>
  \/ \E a \in FenceCalls(game, Callers) : PlaceFence(a[1], a[2], a[3], a[4])
     /\ UNCHANGED <<serverVars, lockVars>>
  \/ TurnTick(LongTick)
     /\ UNCHANGED <<serverVars, lockVars>>

JoinSpec == EngineInit /\ [][JoinNext]_vars

\* ------------------------------------------------- the turn-clock monitor
\* d seconds pass on the turn clock of the server's game.
Slept(S, d) ==
  [S EXCEPT !.game.turn_elapsed =
     IF @ = NoTime THEN @ ELSE Min(@ + d, S.game.turn_timeout + 1)]

\* One iteration of the loop of check_turn_timers: time.sleep(1), then the
\* pass under the lock.
TimerLoop ==
  \E later \in {0, 1} :
    SetSrv(check_turn_timers(Slept(Srv, POLL_INTERVAL), later))

\* The handlers take no time and the clock moves with the monitor's loop,
\* one second an iteration.  The inactivity monitor is left out: it reads
\* last_active, which no step of this specification ages.
TimerNext ==
  \/ \E conn \in Conns : HandleCreateGame(conn, DEFAULT_PLAYERS)
     /\ UNCHANGED lockVars
  \/ \E conn \in Conns : HandleJoinGame(conn, DEFAULT_PLAYERS)
     /\ UNCHANGED lockVars
  \/ \E conn \in Conns : HandlePlaceFence(conn)
     /\ UNCHANGED lockVars
  \/ \E conn \in Conns : HandleLeaveGame(conn)
     /\ UNCHANGED lockVars
  \/ \E conn \in Conns : HandleClientDisconnect(conn)
     /\ UNCHANGED lockVars
  \/ TimerLoop
     /\ UNCHANGED lockVars

TimerSpec == ServerInit /\ [][TimerNext]_vars

\* ------------------------------------------------------------ properties
\* What a call place_fence(a) would do in the current state.
Outcome(a) == place_fence(World, a[1], a[2], a[3], a[4])

AllCalls == FenceCalls(game, Callers)

Scores(r) == [q \in DOMAIN r |-> r[q].score]

\* C1: once the state of a game is finished it is never playing or waiting
\* again, whatever engine and server operations follow.
C1_FinishedIsTerminal ==
  [][game.state = GAME_STATE_FINISHED => game'.state = GAME_STATE_FINISHED]_vars

\* C2: once a player has left a playing game, no fence, cell owner or score
\* of that game changes any more, whatever operations follow.
C2_FrozenAfterLeave ==
  [][game.game_history.left > 0 =>
       /\ game'.horizontal_fences = game.horizontal_fences
       /\ game'.vertical_fences = game.vertical_fences
       /\ game'.owner = game.owner
       /\ Scores(rec') = Scores(rec)]_vars

\* C3: a successful place_fence that claims a cell leaves the current-turn
\* index as it was; one that claims none advances it by one modulo the
\* roster size.
C3_TurnIndex ==
  \A a \in AllCalls :
    LET r == Outcome(a) IN
    r.ret.ok =>
      IF r.ret.claimed # {}
      THEN r.game.current_player_idx = game.current_player_idx
      ELSE r.game.current_player_idx =
             (game.current_player_idx + 1) % Len(game.players)

\* A player has just placed a fence that claimed a cell and the game goes on,
\* after an earlier fence that claimed none and passed the turn to that player.
C3_ClaimedAndMovesAgain ==
  /\ game.state = GAME_STATE_PLAYING
  /\ game.game_history.last = "land_claimed"
  /\ game.current_player_idx = 1
  /\ \E a \in AllCalls : Outcome(a).ret.ok /\ Outcome(a).ret.claimed = {}

\* C4: the score of each rostered player is the sum of the values of the
\* cells whose owner is that player's roster index, and the scores and the
\* values of the unowned cells add up to the total value of the grid.
OwnedBy(g, idx) == {c \in Cells(g.grid_size) : g.owner[c] = idx}

RECURSIVE SumScores(_, _, _)
SumScores(g, r, i) ==
  IF i > Len(g.players) THEN 0 ELSE r[g.players[i]].score + SumScores(g, r, i + 1)

C4_ScoreIsOwnedValue ==
  /\ \A i \in 1..Len(game.players) :
       rec[game.players[i]].score = SumValues(game, OwnedBy(game, i - 1))
  /\ SumScores(game, rec, 1) + SumValues(game, OwnedBy(game, NoOwner))
       = SumValues(game, Cells(game.grid_size))

\* C5: a game with no unclaimed cell is finished.
C5_FullBoardIsFinished ==
  game.unclaimed_lands = 0 => game.state = GAME_STATE_FINISHED

\* C6: while the state is playing the current-turn index is less than the
\* number of rostered players.
C6_CurrentPlayerExists ==
  game.state = GAME_STATE_PLAYING => game.current_player_idx < Len(game.players)

\* C7: at most one thread at a time is inside a block that reads or writes
\* the games, the player records or the connection table, the thread inside
\* is the one that holds the lock, and only its step changes them.
InBlock == {t \in Threads : pc[t] # "idle"}

\* The games, player records and connection table without the clocks, which
\* the passing of time moves.
Tables ==
  <<[game EXCEPT !.turn_elapsed = 0],
    [q \in DOMAIN rec |-> [rec[q] EXCEPT !.last_active = 0]],
    next_id, games, clients, srv_players, created>>

C7_OneThreadInBlock ==
  [][/\ Cardinality(InBlock') <= 1
     /\ \A t \in InBlock' : lock' = t
     /\ Tables' # Tables =>
          \E t \in Threads : lock = t /\ pc[t] = "locked" /\ pc'[t] = "done"]_vars

\* A handler thread is inside its block, after the block of another thread
\* has changed the game.
C7_ThreadInBlock ==
  /\ \E t \in Conns : pc[t] = "done" /\ lock = t
  /\ game.state = GAME_STATE_PLAYING
  /\ game.game_history.len > 0

\* C8: place_fence succeeds exactly when the state is playing, the caller is
\* the current-turn player, the turn clock has not expired, the slot is in
\* range for the orientation, and the slot is not yet set; otherwise it
\* returns failure and an empty claimed list.
IsCurrentTurnPlayer(g, player_id) ==
  /\ g.current_player_idx < Len(g.players)
  /\ g.players[g.current_player_idx + 1] = player_id

ClockRunOut(g) == g.turn_elapsed # NoTime /\ g.turn_elapsed > g.turn_timeout

SlotInRange(g, row, col, orientation) ==
  \/ /\ orientation = "horizontal"
     /\ 0 <= row /\ row <= g.grid_size
     /\ 0 <= col /\ col < g.grid_size
  \/ /\ orientation = "vertical"
     /\ 0 <= row /\ row < g.grid_size
     /\ 0 <= col /\ col <= g.grid_size

SlotSet(g, row, col, orientation) ==
  IF orientation = "horizontal"
  THEN g.horizontal_fences[row][col]
  ELSE g.vertical_fences[row][col]

MaySucceed(g, a) ==
  /\ g.state = "playing"
  /\ IsCurrentTurnPlayer(g, a[1])
  /\ ~ClockRunOut(g)
  /\ SlotInRange(g, a[2], a[3], a[4])
  /\ ~SlotSet(g, a[2], a[3], a[4])

C8_SucceedsIff ==
  \A a \in AllCalls :
    LET r == Outcome(a) IN
    /\ r.ret.ok <=> MaySucceed(game, a)
    /\ ~r.ret.ok => r.ret.claimed = {}

\* After some fences are placed and with the turn clock at exactly the
\* timeout, the current-turn player has a call that succeeds, one on a slot
\* already set and one out of range, and another player a call out of turn.
C8_EveryOutcome ==
  /\ game.state = GAME_STATE_PLAYING
  /\ game.game_history.len > 1
  /\ game.turn_elapsed = game.turn_timeout
  /\ \E a \in AllCalls : Outcome(a).ret.ok
  /\ \E a \in AllCalls :
       /\ IsCurrentTurnPlayer(game, a[1])
       /\ SlotInRange(game, a[2], a[3], a[4])
       /\ SlotSet(game, a[2], a[3], a[4])
       /\ ~Outcome(a).ret.ok
  /\ \E a \in AllCalls :
       /\ IsCurrentTurnPlayer(game, a[1])
       /\ ~SlotInRange(game, a[2], a[3], a[4])
       /\ ~Outcome(a).ret.ok
  /\ \E a \in AllCalls : ~IsCurrentTurnPlayer(game, a[1]) /\ ~Outcome(a).ret.ok

\* C9: a place_fence call that returns failure leaves both fence lattices,
\* every cell owner, every score, the unclaimed count, the state and the
\* history as they were.
C9_FailureChangesNothing ==
  \A a \in AllCalls :
    LET r == Outcome(a) IN
    ~r.ret.ok =>
      /\ r.game.horizontal_fences = game.horizontal_fences
      /\ r.game.vertical_fences = game.vertical_fences
      /\ r.game.owner = game.owner
      /\ Scores(r.rec) = Scores(rec)
      /\ r.game.unclaimed_lands = game.unclaimed_lands
      /\ r.game.state = game.state
      /\ r.game.game_history = game.game_history

\* In a game with a claimed cell and a score, the current-turn player calls
\* on a slot already set, and the call fails.
C9_RejectedOnSetSlot ==
  /\ game.state = GAME_STATE_PLAYING
  /\ game.unclaimed_lands < 4
  /\ \E a \in AllCalls :
       /\ IsCurrentTurnPlayer(game, a[1])
       /\ SlotInRange(game, a[2], a[3], a[4])
       /\ SlotSet(game, a[2], a[3], a[4])
       /\ ~Outcome(a).ret.ok

\* C10: a call of the current-turn player in a playing game after the turn
\* clock has run out fails, advances the current-turn index by one modulo
\* the roster size, restarts the clock and changes nothing else; every other
\* rejected call leaves the index and the clock as they were.
C10_ExpiredCallPassesTurn ==
  \A a \in AllCalls :
    LET r == Outcome(a) IN
    IF /\ game.state = "playing"
       /\ IsCurrentTurnPlayer(game, a[1])
       /\ game.turn_timeout > 0
       /\ ClockRunOut(game)
    THEN /\ ~r.ret.ok
         /\ r.rec = rec
         /\ r.game = [game EXCEPT
                        !.current_player_idx = (@ + 1) % Len(game.players),
                        !.turn_elapsed = 0]
    ELSE ~r.ret.ok =>
           /\ r.game.current_player_idx = game.current_player_idx
           /\ r.game.turn_elapsed = game.turn_elapsed

\* The clock of the second player's turn has run out, some fences are set,
\* and that player calls place_fence.
C10_ClockRunOutAtCall ==
  /\ game.state = GAME_STATE_PLAYING
  /\ game.current_player_idx = 1
  /\ game.game_history.len > 1
  /\ ClockRunOut(game)
  /\ \E a \in AllCalls : IsCurrentTurnPlayer(game, a[1]) /\ ~Outcome(a).ret.ok

\* C11: a fence entry that is true in one state is true in every later
\* state.
C11_FencesStay ==
  [][/\ \A i \in DOMAIN game.horizontal_fences :
          \A j \in DOMAIN game.horizontal_fences[i] :
            game.horizontal_fences[i][j] => game'.horizontal_fences[i][j]
     /\ \A i \in DOMAIN game.vertical_fences :
          \A j \in DOMAIN game.vertical_fences[i] :
            game.vertical_fences[i][j] => game'.vertical_fences[i][j]]_vars

\* Fences of both lattices are set, a cell is claimed, and afterwards the
\* current player was removed and the game ended.
C11_FencesAfterRemoval ==
  /\ game.state = GAME_STATE_FINISHED
  /\ game.game_history.left > 0
  /\ game.unclaimed_lands < 4
  /\ \E i \in DOMAIN game.horizontal_fences :
       \E j \in DOMAIN game.horizontal_fences[i] : game.horizontal_fences[i][j]
  /\ \E i \in DOMAIN game.vertical_fences :
       \E j \in DOMAIN game.vertical_fences[i] : game.vertical_fences[i][j]

\* C12: the owner of a cell changes only from unset to a player index; once
\* set it never changes.
C12_OwnerSetOnce ==
  [][\A c \in DOMAIN game.owner :
       /\ game.owner[c] # NoOwner => game'.owner[c] = game.owner[c]
       /\ game'.owner[c] # game.owner[c] =>
            game'.owner[c] \in 0..(Len(game.players) - 1)]_vars

\* Two cells have owners, of different players, and a fence that claimed
\* nothing was placed after them.
C12_OwnedThenPlayedOn ==
  /\ game.state = GAME_STATE_PLAYING
  /\ game.game_history.last = "fence_placed"
  /\ \E c1, c2 \in DOMAIN game.owner : game.owner[c1] = 0 /\ game.owner[c2] = 1

\* C13: a successful place_fence turns the entry at the given row, column
\* and orientation from false to true and leaves every other entry of both
\* lattices as it was.
C13_OneEntrySet ==
  \A a \in AllCalls :
    LET r == Outcome(a) IN
    r.ret.ok =>
      IF a[4] = "horizontal"
      THEN /\ ~game.horizontal_fences[a[2]][a[3]]
           /\ r.game.horizontal_fences =
                [i \in DOMAIN game.horizontal_fences |->
                   [j \in DOMAIN game.horizontal_fences[i] |->
                      IF i = a[2] /\ j = a[3] THEN TRUE
                      ELSE game.horizontal_fences[i][j]]]
           /\ r.game.vertical_fences = game.vertical_fences
      ELSE /\ a[4] = "vertical"
           /\ ~game.vertical_fences[a[2]][a[3]]
           /\ r.game.vertical_fences =
                [i \in DOMAIN game.vertical_fences |->
                   [j \in DOMAIN game.vertical_fences[i] |->
                      IF i = a[2] /\ j = a[3] THEN TRUE
                      ELSE game.vertical_fences[i][j]]]
           /\ r.game.horizontal_fences = game.horizontal_fences

\* With fences set in both lattices, a horizontal call and a vertical call
\* succeed and a call on a slot already set does not.
C13_PlacedInBothLattices ==
  /\ game.state = GAME_STATE_PLAYING
  /\ \E i \in DOMAIN game.horizontal_fences :
       \E j \in DOMAIN game.horizontal_fences[i] : game.horizontal_fences[i][j]
  /\ \E i \in DOMAIN game.vertical_fences :
       \E j \in DOMAIN game.vertical_fences[i] : game.vertical_fences[i][j]
  /\ \E a \in AllCalls : a[4] = "horizontal" /\ Outcome(a).ret.ok
  /\ \E a \in AllCalls : a[4] = "vertical" /\ Outcome(a).ret.ok
  /\ \E a \in AllCalls :
       /\ SlotInRange(game, a[2], a[3], a[4])
       /\ SlotSet(game, a[2], a[3], a[4])

\* C14: check_claimed_land returns a cell exactly when its top, bottom, left
\* and right fence entries are true and its owner is unset, in the grid of
\* every state and in the grid place_fence scans, which has the new fence
\* and not yet the new owners; place_fence claims what it returns.
Enclosed(g, c) ==
  /\ g.horizontal_fences[c[1]][c[2]]
  /\ g.horizontal_fences[c[1] + 1][c[2]]
  /\ g.vertical_fences[c[1]][c[2]]
  /\ g.vertical_fences[c[1]][c[2] + 1]

Claimable(g) ==
  {c \in (0..(g.grid_size - 1)) \X (0..(g.grid_size - 1)) :
     Enclosed(g, c) /\ g.owner[c] = NoOwner}

\* The grid a successful call a scans.
Scanned(g, a) ==
  IF a[4] = "horizontal"
  THEN [g EXCEPT !.horizontal_fences[a[2]][a[3]] = TRUE]
  ELSE [g EXCEPT !.vertical_fences[a[2]][a[3]] = TRUE]

C14_DetectorIff ==
  /\ check_claimed_land(game) = Claimable(game)
  /\ \A a \in AllCalls :
       Outcome(a).ret.ok =>
         /\ check_claimed_land(Scanned(game, a)) = Claimable(Scanned(game, a))
         /\ Outcome(a).ret.claimed = Claimable(Scanned(game, a))

\* A cell is owned and enclosed, and a call encloses another cell: the scan
\* returns the new cell and not the owned one.
C14_ScanWithOwnedCell ==
  /\ game.state = GAME_STATE_PLAYING
  /\ \E c \in DOMAIN game.owner : game.owner[c] # NoOwner /\ Enclosed(game, c)
  /\ \E a \in AllCalls :
       /\ Outcome(a).ret.ok
       /\ check_claimed_land(Scanned(game, a)) # {}
       /\ \E c \in DOMAIN game.owner :
            Enclosed(Scanned(game, a), c) /\ c \notin check_claimed_land(Scanned(game, a))
  /\ \E a \in AllCalls :
       Outcome(a).ret.ok /\ check_claimed_land(Scanned(game, a)) = {}

\* C15: from a grid with no fences, a cell has an owner exactly when its four
\* fences are set; a placement claims the cells it encloses and no other,
\* makes the placing player their owner, adds their summed value to that
\* player's score and changes no other score.
NewlyEnclosed(g, h) ==
  {c \in DOMAIN g.owner : Enclosed(h, c) /\ ~Enclosed(g, c)}

C15_ClaimedByLastFence ==
  /\ \A c \in DOMAIN game.owner : game.owner[c] # NoOwner <=> Enclosed(game, c)
  /\ \A a \in AllCalls :
       LET r == Outcome(a) IN
       r.ret.ok =>
         /\ r.ret.claimed = NewlyEnclosed(game, r.game)
         /\ \A c \in DOMAIN game.owner :
              r.game.owner[c] = IF c \in r.ret.claimed
                                THEN game.current_player_idx
                                ELSE game.owner[c]
         /\ game.players[game.current_player_idx + 1] = a[1]
         /\ \A q \in DOMAIN rec :
              r.rec[q].score = IF q = a[1]
                               THEN rec[q].score + SumValues(game, r.ret.claimed)
                               ELSE rec[q].score

\* The second player, who has a score already, has a call that claims the
\* gold cell, a call that claims two cells at once, and a call that sets the
\* third fence of a cell and claims nothing.
C15_LastFenceOfGoldCell ==
  /\ game.state = GAME_STATE_PLAYING
  /\ game.current_player_idx = 1
  /\ rec[game.players[2]].score > 0
  /\ \E a \in AllCalls :
       /\ Outcome(a).ret.ok
       /\ \E c \in Outcome(a).ret.claimed : game.land_type[c] = "gold"
  /\ \E a \in AllCalls :
       Outcome(a).ret.ok /\ Cardinality(Outcome(a).ret.claimed) = 2
  /\ \E a \in AllCalls :
       /\ Outcome(a).ret.ok
       /\ Outcome(a).ret.claimed = {}
       /\ \E c \in DOMAIN game.owner :
            Cardinality({f \in 1..4 :
               CASE f = 1 -> Outcome(a).game.horizontal_fences[c[1]][c[2]]
                 [] f = 2 -> Outcome(a).game.horizontal_fences[c[1] + 1][c[2]]
                 [] f = 3 -> Outcome(a).game.vertical_fences[c[1]][c[2]]
                 [] f = 4 -> Outcome(a).game.vertical_fences[c[1]][c[2] + 1]}) = 3

\* C16: end_game on a game that is not finished gives each rostered player
\* one outcome: with one player, a win; with a single highest score, a win
\* to that player and a loss to the others; with several highest scores, a
\* draw to each of them and a loss to the others.  So does the placement
\* that claims the last cell.
TopScorers(players, r) ==
  {q \in {players[i] : i \in 1..Len(players)} :
     \A i \in 1..Len(players) : r[players[i]].score <= r[q].score}

\* The records r after the outcomes of a game of these players.
Outcomes(players, r) ==
  [q \in DOMAIN r |->
     IF q \notin {players[i] : i \in 1..Len(players)} THEN r[q]
     ELSE IF Len(players) = 1 \/ TopScorers(players, r) = {q}
     THEN [r[q] EXCEPT !.wins = @ + 1, !.games_played = @ + 1]
     ELSE IF q \in TopScorers(players, r)
     THEN [r[q] EXCEPT !.draws = @ + 1, !.games_played = @ + 1]
     ELSE [r[q] EXCEPT !.losses = @ + 1, !.games_played = @ + 1]]

C16_EndGameOutcomes ==
  /\ (game.state # GAME_STATE_FINISHED /\ Len(game.players) >= 1) =>
       /\ end_game(World).rec = Outcomes(game.players, rec)
       /\ end_game(World).game.state = GAME_STATE_FINISHED
  /\ \A a \in AllCalls :
       LET r == Outcome(a)
           scored == [q \in DOMAIN rec |->
                        [rec[q] EXCEPT !.score = r.rec[q].score,
                                       !.last_active = r.rec[q].last_active]]
       IN (r.ret.ok /\ r.game.unclaimed_lands = 0) =>
            r.rec = Outcomes(game.players, scored)

\* A game of three players has ended by the claim of the last cell with two
\* of them sharing the highest score: two draws and one loss.
C16_TwoDrawOneLoses ==
  /\ game.state = GAME_STATE_FINISHED
  /\ game.unclaimed_lands = 0
  /\ game.game_history.last = "game_over"
  /\ Len(game.players) = 3
  /\ \E q1, q2, q3 \in DOMAIN rec :
       /\ q1 # q2
       /\ rec[q1].draws = 1 /\ rec[q2].draws = 1 /\ rec[q3].losses = 1
       /\ rec[q1].score = rec[q2].score /\ rec[q3].score < rec[q1].score

\* C17: remove_player of an identifier not on the roster returns false and
\* changes nothing.  Of a rostered player in a playing game, it gives every
\* other rostered player one win and the leaver one loss, appends a
\* player_left entry, sets the state to finished and takes the player off
\* the roster; in a waiting or finished game it only takes the player off.
Without(players, q) == SelectSeq(players, LAMBDA x : x # q)

C17_RemovePlayer ==
  \A q \in Callers :
    LET r == remove_player(World, q)
        rostered == \E i \in 1..Len(game.players) : game.players[i] = q
    IN IF ~rostered
       THEN ~r.ret /\ r.game = game /\ r.rec = rec
       ELSE IF game.state = "playing"
       THEN /\ r.ret
            /\ r.game = [game EXCEPT
                           !.players = Without(game.players, q),
                           !.state = "finished",
                           !.game_history =
                              [len |-> @.len + 1, last |-> "player_left", by |-> q,
                               left |-> @.left + 1, over |-> @.over]]
            /\ \A x \in DOMAIN rec :
                 r.rec[x] =
                   IF x = q
                   THEN [rec[x] EXCEPT !.losses = @ + 1, !.games_played = @ + 1]
                   ELSE IF \E i \in 1..Len(game.players) : game.players[i] = x
                   THEN [rec[x] EXCEPT !.wins = @ + 1, !.games_played = @ + 1]
                   ELSE rec[x]
       ELSE /\ r.ret
            /\ r.game = [game EXCEPT !.players = Without(game.players, q)]
            /\ r.rec = rec

\* The first of three players has left a game in play: the two others have
\* a win each, the leaver a loss.  Then one more player left the finished
\* game, with no change of the counters.
C17_LeftGameInPlay ==
  /\ game.state = GAME_STATE_FINISHED
  /\ game.game_history.last = "player_left"
  /\ game.game_history.by = 1
  /\ game.game_history.len > 1
  /\ Len(game.players) = 1
  /\ rec[1].losses = 1 /\ rec[1].wins = 0
  /\ rec[2].wins = 1 /\ rec[2].losses = 0 /\ rec[2].games_played = 1
  /\ rec[3].wins = 1 /\ rec[3].losses = 0 /\ rec[3].games_played = 1

\* The turn clock of a playing game runs out during the sleep that precedes
\* this iteration of the turn-clock monitor.
RunsOutInSleep ==
  /\ GameId \in games
  /\ game.state = GAME_STATE_PLAYING
  /\ game.turn_elapsed # NoTime
  /\ game.turn_elapsed <= game.turn_timeout
  /\ game.turn_elapsed + POLL_INTERVAL > game.turn_timeout

\* C18: when the turn clock of a playing game runs out with no action from
\* the current-turn player, the iteration of the turn-clock monitor that
\* finds it so cancels the turn and nothing more: the current-turn index
\* moves to the next player, no fence is placed, the stalled player stays on
\* the roster and the game stays in play.
C18_MonitorPassesTurn ==
  [][(RunsOutInSleep /\ TimerLoop) =>
       /\ game'.players = game.players
       /\ game'.state = GAME_STATE_PLAYING
       /\ game'.current_player_idx =
            (game.current_player_idx + 1) % Len(game.players)
       /\ game'.horizontal_fences = game.horizontal_fences
       /\ game'.vertical_fences = game.vertical_fences]_vars

\* This iteration of the turn-clock monitor ends the turn whose clock ran
\* out: it takes the current-turn player off the roster.
MonitorEndsTurn ==
  /\ RunsOutInSleep
  /\ TimerLoop
  /\ game'.players # game.players

\* C19: whenever the turn-clock monitor ends a turn because the clock ran
\* out, a warning was sent earlier in that turn to a connection of the
\* current-turn player, while the time left was positive and below ten
\* seconds.
C19_WarnedBeforeTimeout ==
  [][MonitorEndsTurn =>
       \E c \in sent.warned :
         clients[c] = [player |-> get_current_player(game), game |-> GameId]]_vars

\* The warning does reach a current-turn player that a connection is
\* registered for.
WarnedWhenConnected ==
  [][(/\ MonitorEndsTurn
      /\ \E c \in Conns :
           clients[c] = [player |-> get_current_player(game), game |-> GameId])
     => \E c \in sent.warned :
          clients[c] = [player |-> get_current_player(game), game |-> GameId]]_vars

\* The block of monitor thread t takes a player off the roster or ends the
\* game.
MonitorRemoves(t) ==
  /\ pc[t] = "locked"
  /\ pc'[t] = "done"
  /\ \/ game'.players # game.players
     \/ game'.state # game.state

\* C20: every removal or termination by a background monitor (the
\* turn-clock monitor or the inactivity monitor) comes with a broadcast of
\* the game's new snapshot to every connection associated with the game.
C20_MonitorBroadcasts ==
  [][\A t \in {TimerThread, InactivityThread} :
       MonitorRemoves(t) =>
         /\ sent'.snapshot = Snapshot(game')
         /\ sent'.to = {c \in Conns : clients'[c].game = GameId}]_vars

\* The block of handler thread t creates the game, changes its roster or
\* sets a fence: a registry operation that succeeded.
HandlerSucceeds(t) ==
  /\ pc[t] = "locked"
  /\ pc'[t] = "done"
  /\ \/ created' # created
     \/ game'.players # game.players
     \/ game'.horizontal_fences # game.horizontal_fences
     \/ game'.vertical_fences # game.vertical_fences

\* The last game_state message shows the game as it is after the step and
\* went to every connection the table associates with the game.
BroadcastAfter ==
  /\ sent'.snapshot = Snapshot(game')
  /\ {c \in Conns : clients'[c].game = GameId} \subseteq sent'.to

\* C21: every successful mutating operation of the registry (create game,
\* join game, leave game, place fence) broadcasts, inside its locked block,
\* the game's current snapshot to every connection associated with the
\* game.
C21_SuccessBroadcasts ==
  [][\A t \in Conns : HandlerSucceeds(t) => BroadcastAfter]_vars

\* The operations on a game that exists do broadcast.
BroadcastAfterCreation ==
  [][\A t \in Conns :
       (HandlerSucceeds(t) /\ created) => BroadcastAfter]_vars

\* The connections that speak for a player of a game.
Associated == {c \in Conns : clients[c] # NoAssoc}

\* C22: handling the disconnection of a connection associated with player P
\* and game G changes G's engine state as leave_game(G, P) does; afterwards
\* the connection has no association, P is not on G's roster, and G is out
\* of the games table if and only if its roster became empty.
C22_DisconnectIsLeave ==
  \A conn \in Associated :
    LET P == clients[conn].player
        G == clients[conn].game
        D == handle_client_disconnect(Srv, conn)
        L == handle_leave_game(Srv, conn, G, P).srv
    IN /\ D.game = L.game
       /\ D.rec = L.rec
       /\ D.clients[conn] = NoAssoc
       /\ \A c \in Conns \ {conn} : D.clients[c] = clients[c]
       /\ G \in games =>
            /\ ~OnRoster(D.game, P)
            /\ G \notin D.games <=> Len(D.game.players) = 0
       /\ G \notin games => D.games = games

\* The connection of the only player of a waiting game is open: its
\* disconnection empties the roster.
C22_LastPlayerConnected ==
  /\ GameId \in games
  /\ \E conn \in Associated :
       /\ game.players = <<clients[conn].player>>
       /\ game.state = GAME_STATE_WAITING

\* A server whose games table holds the engine's game.
Hosting == [Srv EXCEPT !.games = {GameId}]

\* C23: add_player on a game whose roster is at max_players returns false
\* and changes nothing; the roster never holds more than max_players
\* players and max_players is at most MAX_PLAYERS; of two join requests for
\* the last free place, handled one after the other under the lock, exactly
\* one is admitted.
C23_Capacity ==
  /\ Len(game.players) <= game.max_players
  /\ game.max_players <= MAX_PLAYERS
  /\ \A p \in PlayerIds :
       LET r == add_player(World, p) IN
       IF Len(game.players) = game.max_players
       THEN r = [game |-> game, rec |-> rec, ret |-> FALSE]
       ELSE r.ret /\ r.game.players = Append(game.players, p)
  /\ Len(game.players) = game.max_players - 1 =>
       \A c1, c2 \in Conns :
         LET first == handle_join_game(Hosting, c1, GameId)
             second == handle_join_game(first.srv, c2, GameId)
         IN /\ first.resp = "game_joined"
            /\ second.resp = "Game is full"
            /\ second.srv.game = first.srv.game
            /\ Len(second.srv.game.players) = game.max_players

\* A game made for more than MAX_PLAYERS players is full with
\* MAX_PLAYERS players on its roster.
C23_FullGame ==
  /\ game.max_players = MAX_PLAYERS
  /\ Len(game.players) = MAX_PLAYERS

\* C24: add_player sets the state to playing and starts the turn clock on
\* the admission that brings the roster of a waiting game to two players;
\* a later successful admission leaves the lifecycle state and the running
\* turn clock as they were.
C24_LaterAdmissionKeepsClock ==
  \A p \in PlayerIds :
    LET r == add_player(World, p) IN
    r.ret =>
      IF Len(game.players) >= 2
      THEN /\ r.game.state = game.state
           /\ r.game.turn_elapsed = game.turn_elapsed
      ELSE (Len(game.players) = 1 /\ game.state = GAME_STATE_WAITING) =>
             /\ r.game.state = GAME_STATE_PLAYING
             /\ r.game.turn_elapsed = 0

\* C25: end_game on a finished game changes nothing, whether the game was
\* finished by a full board, by a removal or by end_game: no history entry
\* is appended and no counter of any player changes; calling it twice is
\* calling it once.
C25_EndGameIdempotent ==
  /\ game.state = GAME_STATE_FINISHED =>
       end_game(World) = [game |-> game, rec |-> rec]
  /\ end_game(end_game(World)) = end_game(World)

\* A game finished by the removal of a player, with counters written.
C25_FinishedByRemoval ==
  /\ game.state = GAME_STATE_FINISHED
  /\ game.game_history.last = "player_left"
  /\ \E q \in PlayerIds : rec[q].wins = 1

\* What C26 compares of two engines: the fence lattices, the cells' types
\* and owners, the roster with its scores, the unclaimed count, the
\* lifecycle state and, when withIndex, the current-turn index.
SameBoard(w1, w2, withIndex) ==
  /\ w1.game.horizontal_fences = w2.game.horizontal_fences
  /\ w1.game.vertical_fences = w2.game.vertical_fences
  /\ w1.game.land_type = w2.game.land_type
  /\ w1.game.owner = w2.game.owner
  /\ w1.game.players = w2.game.players
  /\ \A i \in 1..Len(w1.game.players) :
       w1.rec[w1.game.players[i]].score = w2.rec[w1.game.players[i]].score
  /\ w1.game.unclaimed_lands = w2.game.unclaimed_lands
  /\ w1.game.state = w2.game.state
  /\ withIndex => w1.game.current_player_idx = w2.game.current_player_idx

\* C26: for an engine in any reachable state, from_dict(to_dict(engine))
\* has the fence lattices, cell types and owners, player scores, unclaimed
\* count, lifecycle state and current-turn index of the engine.
C26_RoundTrip ==
  SameBoard(from_dict(to_dict(World)), World, TRUE)

\* Everything but the index comes back, and the index too when it points
\* into the roster.
RoundTripButIndex ==
  /\ SameBoard(from_dict(to_dict(World)), World, FALSE)
  /\ get_current_player(game) # NoPlayer =>
       SameBoard(from_dict(to_dict(World)), World, TRUE)

\* C27: every acquisition of the registry lock by a handler or a monitor
\* is followed by its release, on every path out of the block: a request
\* answered, a request rejected, a request that raises inside the block.
\* No block acquires the lock again, so the lock is always freed.
C27_LockReleased ==
  (lock # Free) ~> (lock = Free)

\* A handler holds the lock for a request on a game that has no current
\* player: place_fence raises inside the block.
C27_HoldsLockWhereFenceRaises ==
  /\ GameId \in games
  /\ get_current_player(game) = NoPlayer
  /\ \E t \in Conns : lock = t /\ pc[t] = "locked"

\* Player q's counters in r2 are those in r1 with one more game played and
\* one more win (won) or one more loss.
OneMoreGame(r1, r2, q, won) ==
  /\ r2[q].games_played = r1[q].games_played + 1
  /\ r2[q].wins = r1[q].wins + (IF won THEN 1 ELSE 0)
  /\ r2[q].losses = r1[q].losses + (IF won THEN 0 ELSE 1)
  /\ r2[q].draws = r1[q].draws

\* C28: when a pass of the inactivity monitor removes the current-turn
\* player because its last activity is older than the inactivity window
\* (the turn clock has not run out), every remaining player has exactly one
\* more win and the removed player exactly one more loss (one more game
\* played each), the game is finished, the new state is broadcast, and the
\* game is deleted if its roster is empty.
C28_InactivityRemoval ==
  LET S2 == check_inactive_players(Srv)
      stalled == get_current_player(game)
  IN (/\ stalled # NoPlayer
      /\ rec[stalled].last_active > INACTIVITY_TIMEOUT
      /\ ~ClockRunOut(game)
      /\ S2.game.players # game.players) =>
       /\ ~OnRoster(S2.game, stalled)
       /\ OneMoreGame(rec, S2.rec, stalled, FALSE)
       /\ \A i \in 1..Len(S2.game.players) :
            OneMoreGame(rec, S2.rec, S2.game.players[i], TRUE)
       /\ S2.game.state = GAME_STATE_FINISHED
       /\ S2.sent.snapshot = Snapshot(S2.game)
       /\ Len(S2.game.players) = 0 => GameId \notin S2.games

\* A waiting game has fewer than two players and no turn clock.
WaitingRoom(g) ==
  g.state = GAME_STATE_WAITING =>
    Len(g.players) < 2 /\ g.turn_elapsed = NoTime

\* C29: a game is created waiting with an empty roster; a waiting game has
\* fewer than two players and stays waiting while that is so; it becomes
\* playing, with the turn clock started, exactly at the admission that
\* brings its roster to two; no step of the server takes a game from waiting
\* to finished.
C29_WaitingUntilTwo ==
  /\ game.state = GAME_STATE_WAITING /\ game.players = <<>>
  /\ [][/\ WaitingRoom(game')
        /\ game.state = GAME_STATE_WAITING =>
             /\ game'.state # GAME_STATE_FINISHED
             /\ Len(game'.players) < 2 => game'.state = GAME_STATE_WAITING
             /\ game'.state = GAME_STATE_PLAYING =>
                  /\ Len(game.players) = 1
                  /\ game'.players = Append(game.players, next_id)
                  /\ game'.turn_elapsed = 0]_vars

\* The second player has just been admitted to a game that waited for more
\* than a minute.
C29_StartedAfterWaiting ==
  /\ game.state = GAME_STATE_PLAYING
  /\ Len(game.players) = 2
  /\ game.turn_elapsed = 0
  /\ game.game_history.len = 0
  /\ rec[game.players[1]].last_active > INACTIVITY_TIMEOUT

\* The answer of handle_place_fence to call a sent on connection t.
Answer(t, a) == handle_place_fence(Srv, t, GameId, a[1], a[2], a[3], a[4])

\* Call a addresses a slot of the lattice that is set.
OnSetSlot(a) == SlotInRange(game, a[2], a[3], a[4]) /\ SlotSet(game, a[2], a[3], a[4])

\* The answer leaves every fence, owner and score as it was.
BoardKept(R) ==
  /\ R.srv.game.horizontal_fences = game.horizontal_fences
  /\ R.srv.game.vertical_fences = game.vertical_fences
  /\ R.srv.game.owner = game.owner
  /\ Scores(R.srv.rec) = Scores(rec)

\* C30 as the code has it: whatever the interleaving of the handler
\* threads, a place_fence request succeeds only for a slot that is not set
\* and sets it; a request for a set slot changes no fence, owner or score
\* and is rejected, as an invalid move when it names the current-turn
\* player and otherwise as not-your-turn, game-not-found or server error.
C30_SetSlotRejected ==
  \A t \in Conns, a \in AllCalls :
    LET R == Answer(t, a) IN
    /\ R.resp = "fence_placed" =>
         /\ SlotInRange(game, a[2], a[3], a[4])
         /\ ~SlotSet(game, a[2], a[3], a[4])
         /\ SlotSet(R.srv.game, a[2], a[3], a[4])
    /\ OnSetSlot(a) =>
         /\ BoardKept(R)
         /\ R.resp = IF GameId \notin games THEN "Game not found"
                     ELSE IF get_current_player(game) = NoPlayer THEN "Server error"
                     ELSE IF get_current_player(game) # a[1] THEN "Not your turn"
                     ELSE "Invalid move"

\* C30: for any interleaving of place_fence requests of different handler
\* threads for one slot, at most one succeeds; every later request for the
\* slot is rejected as an invalid move and changes no fence, score or owner.
C30_LaterIsInvalidMove ==
  \A t \in Conns, a \in AllCalls :
    LET R == Answer(t, a) IN
    /\ R.resp = "fence_placed" => ~SlotSet(game, a[2], a[3], a[4])
    /\ OnSetSlot(a) => R.resp = "Invalid move" /\ BoardKept(R)

\* A handler thread holds the lock for a player whose turn it is not, in a
\* game in play where the first horizontal fence is set.
C30_RacingForSetSlot ==
  /\ GameId \in games
  /\ game.state = GAME_STATE_PLAYING
  /\ game.horizontal_fences[0][0]
  /\ \E t \in Conns :
       /\ lock = t /\ pc[t] = "locked"
       /\ clients[t].game = GameId
       /\ clients[t].player # get_current_player(game)

\* C31: a join_game request that is rejected, for an unknown game
\* identifier or a full roster, leaves the games table, the game's roster
\* and state, the connection table and the table of players as they were.
C31_RejectedJoinChangesNothing ==
  \A conn \in Conns, gid \in GameIds :
    LET R == handle_join_game(Srv, conn, gid) IN
    R.resp # "game_joined" =>
      /\ R.srv.games = games
      /\ R.srv.game = game
      /\ R.srv.clients = clients
      /\ R.srv.players = srv_players

\* A join_game request for an unknown game identifier does leave them so.
UnknownGameJoinChangesNothing ==
  \A conn \in Conns :
    LET R == handle_join_game(Srv, conn, UnknownGameId) IN
    /\ R.resp = "Game not found"
    /\ R.srv = Srv

\* A step appends a fence_placed entry exactly when it sets a fence, and a
\* land_claimed entry exactly when it gives a cell an owner.
FenceEntryAppended ==
  \/ game'.horizontal_fences # game.horizontal_fences
  \/ game'.vertical_fences # game.vertical_fences
  \/ game'.owner # game.owner

\* C32: the history is append-only and ordered: no step shortens it; a
\* land_claimed entry comes right after the fence_placed entry of the same
\* player; game_over appears at most once; no fence_placed or land_claimed
\* entry follows a game_over or player_left entry.
C32_HistoryOrdered ==
  [][/\ game'.game_history.len >= game.game_history.len
     /\ game'.game_history.left >= game.game_history.left
     /\ game'.game_history.over >= game.game_history.over
     /\ game'.game_history.over <= 1
     /\ (game'.game_history.last = "land_claimed"
           /\ game'.game_history.len > game.game_history.len) =>
          /\ game'.game_history.len = game.game_history.len + 2
          /\ game'.game_history.by = get_current_player(game)
     /\ (game.game_history.left > 0 \/ game.game_history.over > 0) =>
          ~FenceEntryAppended]_vars

\* The same while no player has left and the game has not ended.
HistoryOrderedInPlay ==
  [][(game.game_history.left = 0 /\ game.game_history.over = 0) =>
       /\ game'.game_history.len >= game.game_history.len
       /\ game'.game_history.over <= 1
       /\ (game'.game_history.last = "land_claimed"
             /\ game'.game_history.len > game.game_history.len) =>
            /\ game'.game_history.len = game.game_history.len + 2
            /\ game'.game_history.by = get_current_player(game)]_vars

\* C33: a background monitor (turn clock or inactivity) removes the
\* current-turn player only if that player's turn has lasted longer than
\* the turn timeout, however long ago the player's last recorded activity.
C33_RemovedOnlyAfterTimeout ==
  [][\A t \in {TimerThread, InactivityThread} :
       (/\ pc[t] = "locked"
        /\ pc'[t] = "done"
        /\ game'.players # game.players) => ClockRunOut(game)]_vars

\* The turn-clock monitor does remove a player only after the turn timeout.
TimerRemovesOnlyAfterTimeout ==
  [][(/\ pc[TimerThread] = "locked"
      /\ pc'[TimerThread] = "done"
      /\ game'.players # game.players) => ClockRunOut(game)]_vars

\* C34: after every handler or monitor pass, each entry of the connection
\* table names a game of the games table and a player on that game's
\* roster; no removal from a roster leaves an entry for the removed player.
C34_AssociationsLive ==
  \A conn \in Associated :
    /\ clients[conn].game \in games
    /\ OnRoster(game, clients[conn].player)

\* A leave_game request of a connection for its own player leaves no entry
\* for that player behind.
OwnLeaveClearsAssociation ==
  \A conn \in Associated :
    LET P == clients[conn].player
        R == handle_leave_game(Srv, conn, clients[conn].game, P)
    IN (R.resp = "left" /\ \A c \in Associated \ {conn} : clients[c].player # P) =>
         \A c \in Conns : R.srv.clients[c] = NoAssoc \/ R.srv.clients[c].player # P

\* C35: a game that is playing has at least two players on its roster, and
\* after every handler or monitor pass no game of the games table has an
\* empty roster.
C35_RostersPopulated ==
  /\ game.state = GAME_STATE_PLAYING => Len(game.players) >= 2
  /\ GameId \in games => Len(game.players) >= 1

\* A removal has taken a playing game of the games table down to one player.
C35_RemovedFromPlaying ==
  /\ GameId \in games
  /\ game.game_history.last = "player_left"
  /\ Len(game.players) = 1
  /\ game.state = GAME_STATE_FINISHED

\* The first half on rosters of up to MAX_PLAYERS players.
PlayingHasTwo ==
  game.state = GAME_STATE_PLAYING => Len(game.players) >= 2

\* C36: between engine operations a cell has an owner if and only if its
\* four bounding fences are set: no enclosed cell is without an owner and
\* no owned cell is without one of its fences.
C36_OwnedIffEnclosed ==
  \A c \in Cells(game.grid_size) :
    game.owner[c] # NoOwner <=> Enclosed(game, c)

\* One fence has enclosed two cells at once: seven fences and one claim are
\* in the history, two cells are owned and the other two are not enclosed.
C36_TwoCellsByOneFence ==
  /\ game.state = GAME_STATE_PLAYING
  /\ game.game_history.len = 8
  /\ game.game_history.last = "land_claimed"
  /\ Cardinality(OwnedBy(game, NoOwner)) = 2
  /\ \A c \in OwnedBy(game, NoOwner) : ~Enclosed(game, c)

\* C37: the unclaimed counter is the number of cells without an owner; it
\* starts at N * N, never increases and is never negative.
C37_UnclaimedCounter ==
  /\ game.unclaimed_lands = game.grid_size * game.grid_size
  /\ [](/\ game.unclaimed_lands = Cardinality(OwnedBy(game, NoOwner))
        /\ game.unclaimed_lands >= 0)
  /\ [][game'.unclaimed_lands <= game.unclaimed_lands]_vars

\* Three cells have been claimed and one cell is still unclaimed.
C37_CounterWentDown ==
  /\ game.state = GAME_STATE_PLAYING
  /\ game.unclaimed_lands = 1
  /\ Cardinality(OwnedBy(game, NoOwner)) = 1

\* The cells that touch the fence of call a.
Touching(a) ==
  IF a[4] = "horizontal"
  THEN {<<a[2] - 1, a[3]>>, <<a[2], a[3]>>}
  ELSE {<<a[2], a[3] - 1>>, <<a[2], a[3]>>}

\* C39: a successful place_fence claims at most two cells, each of them
\* touching the fence just placed: for a horizontal fence at (r, c) the
\* cells (r-1, c) and (r, c), for a vertical one the cells (r, c-1) and
\* (r, c).
C39_ClaimsTouchFence ==
  \A a \in AllCalls :
    LET r == Outcome(a) IN
    r.ret.ok =>
      /\ Cardinality(r.ret.claimed) <= 2
      /\ r.ret.claimed \subseteq Touching(a)

\* A cell of the grid is owned and enclosed, and a call encloses the two
\* cells of the other row, which its fence touches.
C39_ClaimsBesideOwnedCell ==
  /\ game.state = GAME_STATE_PLAYING
  /\ \E a \in AllCalls :
       /\ Outcome(a).ret.ok
       /\ Outcome(a).ret.claimed = Touching(a)
       /\ \E c \in Cells(game.grid_size) \ Touching(a) :
            game.owner[c] # NoOwner /\ Enclosed(game, c)

\* C38: handling the disconnection of a connection twice, as the client
\* worker does at the end of the stream, has the effect of handling it
\* once: the second run finds no entry for the connection and changes
\* nothing, so the player is removed and the credits are given at most once.
C38_DisconnectIdempotent ==
  \A conn \in Conns :
    LET D == handle_client_disconnect(Srv, conn) IN
    /\ D.clients[conn] = NoAssoc
    /\ handle_client_disconnect(D, conn) = D
    /\ clients[conn] = NoAssoc => D = Srv

\* Both players of a playing game are connected: the first run for either
\* connection removes its player and credits the other.
C38_BothConnectedWhilePlaying ==
  /\ GameId \in games
  /\ game.state = GAME_STATE_PLAYING
  /\ \A conn \in Conns :
       /\ conn \in Associated
       /\ OnRoster(game, clients[conn].player)
       /\ ~OnRoster(handle_client_disconnect(Srv, conn).game, clients[conn].player)
       /\ handle_client_disconnect(Srv, conn).rec # rec
  /\ clients[1].player # clients[2].player

====
